---- MODULE Spec2Model ----
(***************************************************************************)
(* A model of the PANNs audio tagging service (src/panns-api/api.py).      *)
(*                                                                         *)
(* Spec      the two request handlers, classify_audio and detect_events,   *)
(*           run as coroutines on the single asyncio event loop of the     *)
(*           uvicorn worker, sharing the lazily created global _model.     *)
(* SpecDedup the temporal dedup loop of detect_events fed one candidate    *)
(*           at a time.                                                    *)
(* SpecTopK  the top-k tag selection of classify_audio on a drawn          *)
(*           probability vector.                                           *)
(*                                                                         *)
(* Probabilities are held in hundredths (0.05 is 5, 0.3 is 30).            *)
(* Timestamps are held in half milliseconds: every window start is a       *)
(* multiple of hop_samples = 16 * window_ms, so (start / sr) * 1000 is a   *)
(* whole number of half milliseconds and the comparison with window_ms is  *)
(* made against 2 * window_ms.                                             *)
(***************************************************************************)
EXTENDS Integers, Sequences, FiniteSets, TLC

VARIABLES
    _model,       \* the global _model: "None" or "AudioTagging"
    constructed,  \* how many times AudioTagging(...) returned an instance
    current,      \* the coroutine the event loop is running, 0 when it is idle
    pc,           \* per request: the position of its handler
    endpoint,     \* per request: "classify" or "detect"
    tmpfile,      \* per request: the NamedTemporaryFile exists on disk
    loc,          \* per request: the handler's local variables
    resp,         \* per request: the response sent
    dd,           \* SpecDedup: the dedup loop's candidates so far and its output
    tk            \* SpecTopK: the selection's inputs and its tags

vars == <<_model, constructed, current, pc, endpoint, tmpfile, loc, resp, dd, tk>>

mainVars == <<_model, constructed, current, pc, endpoint, tmpfile, loc, resp>>

----
\* Bounds of the model.

MaxHops == 4        \* clip lengths go up to MaxHops * 16 + 1 samples
MaxWindowMs == 2    \* window_ms ranges over -1 .. MaxWindowMs
MaxTopK == 4        \* top_k ranges over -MaxTopK .. MaxTopK
MaxCands == 3       \* SpecDedup: candidates fed to the dedup loop
MaxTs == 5          \* SpecDedup: largest candidate timestamp, in half ms

----
\* Program constants.

SampleRate == 32000        \* librosa.load(..., sr=32000)
TagFloor == 5              \* probs[i] > 0.05
EventThreshold == 30       \* prob > 0.3
DefaultWindowMs == 500     \* window_ms: int = 500

\* The requests in flight: two, the number it takes for two inference calls to
\* overlap.
Reqs == {1, 2}

\* model.labels: the classifier's vocabulary, here three of AudioSet's labels.
Labels == <<"Knock", "Music", "Speech">>

SPORTS_SOUNDS ==
    [l \in {"Ping-pong ball", "Table tennis", "Bouncing", "Knock", "Tap",
            "Clapping", "Cheering", "Speech", "Silence"} |->
        CASE l \in {"Ping-pong ball", "Bouncing"} -> "bounce"
          [] l = "Table tennis" -> "game"
          [] l \in {"Knock", "Tap"} -> "hit"
          [] l \in {"Clapping", "Cheering"} -> "point"
          [] l = "Speech" -> "voice"
          [] OTHER -> "silence"]

\* The probabilities an inference call gives one label in Spec: at the tag floor
\* or above both thresholds.
ProbLevels == {5, 60}

\* The probabilities SpecTopK draws: below, at and above the tag floor.
TopKLevels == {1, 5, 40, 60}

\* The confidences and event names SpecDedup draws for its candidates.
ConfLevels == {40, 60}

EventNames == {"hit", "voice"}

\* The timestamps SpecDedup draws, in half ms: the small ones, and 300 ms and
\* 600 ms for use with the default window_ms.
TsVals == (0 .. MaxTs) \cup {600, 1200}

\* clipwise_output[0]: one probability for each label.
ProbVecs == [1 .. Len(Labels) -> ProbLevels]

\* len(audio) after decoding: around every multiple of the smallest hop.
ClipLens == {j * 16 + d : j \in 0 .. MaxHops, d \in {0, 1}}

WindowMsVals == -1 .. MaxWindowMs

\* The window_ms values SpecDedup draws.
DedupWindowMsVals == WindowMsVals \cup {DefaultWindowMs}

TopKVals == (0 - MaxTopK) .. MaxTopK

Min(a, b) == IF a < b THEN a ELSE b

Max(a, b) == IF a > b THEN a ELSE b

Last(s) == s[Len(s)]

Reverse(s) == [i \in 1 .. Len(s) |-> s[Len(s) + 1 - i]]

----
\* Window segmentation.

\* Python's int() of a float: truncation toward zero.
IntTrunc(num, den) ==
    IF num >= 0 THEN num \div den ELSE 0 - ((0 - num) \div den)

window_samples(window_ms) == IntTrunc(window_ms * SampleRate, 1000)

hop_samples(window_ms) == window_samples(window_ms) \div 2

\* range(0, stop, step) still has the value start to give.
RangeHas(start, stop, step) ==
    IF step > 0 THEN start < stop ELSE start > stop

\* (start / sr) * 1000, in half milliseconds.
timestamp_ms(start) == (start * 2000) \div SampleRate

\* The candidates one window adds to detected_events, in label order.
RECURSIVE Candidates(_, _, _)
Candidates(probs, ts, i) ==
    IF i > Len(Labels) THEN <<>>
    ELSE LET rest == Candidates(probs, ts, i + 1)
         IN  IF Labels[i] \in DOMAIN SPORTS_SOUNDS /\ probs[i] > EventThreshold
             THEN <<[event |-> SPORTS_SOUNDS[Labels[i]],
                     timestamp_ms |-> ts,
                     confidence |-> probs[i]]>> \o rest
             ELSE rest

----
\* Temporal dedup.

DedupStepInclusive(deduped, event, window_ms) ==
    IF deduped = <<>>
       \/ event.timestamp_ms - Last(deduped).timestamp_ms >= 2 * window_ms
    THEN Append(deduped, event)
    ELSE IF event.confidence > Last(deduped).confidence
         THEN [deduped EXCEPT ![Len(deduped)] = event]
         ELSE deduped

DedupStepKeepsLater(deduped, event, window_ms) ==
    IF deduped = <<>>
       \/ event.timestamp_ms - Last(deduped).timestamp_ms > 2 * window_ms
    THEN Append(deduped, event)
    ELSE IF event.confidence >= Last(deduped).confidence
         THEN [deduped EXCEPT ![Len(deduped)] = event]
         ELSE deduped

DedupStepFirstSlot(deduped, event, window_ms) ==
    IF deduped = <<>>
       \/ event.timestamp_ms - Last(deduped).timestamp_ms > 2 * window_ms
    THEN Append(deduped, event)
    ELSE IF event.confidence > Last(deduped).confidence
         THEN [deduped EXCEPT ![1] = event]
         ELSE deduped

\* One iteration of "for event in detected_events".
DedupStep(deduped, event, window_ms) ==
    IF deduped = <<>>
       \/ event.timestamp_ms - Last(deduped).timestamp_ms > 2 * window_ms
    THEN Append(deduped, event)
    ELSE IF event.confidence > Last(deduped).confidence
         THEN [deduped EXCEPT ![Len(deduped)] = event]
         ELSE deduped

\* The whole loop, from deduped = [].
RECURSIVE DedupFrom(_, _, _)
DedupFrom(deduped, events, window_ms) ==
    IF events = <<>> THEN deduped
    ELSE DedupFrom(DedupStep(deduped, events[1], window_ms), Tail(events), window_ms)

Dedup(events, window_ms) == DedupFrom(<<>>, events, window_ms)

----
\* Top-k selection.

\* The orders np.argsort(probs) can give: ascending by probability; its default
\* sort is not stable, so entries of equal probability come in any order.
ArgSorts(probs) ==
    {o \in [1 .. Len(probs) -> 1 .. Len(probs)] :
        /\ \A i, j \in 1 .. Len(probs) : i # j => o[i] # o[j]
        /\ \A i, j \in 1 .. Len(probs) : i < j => probs[o[i]] <= probs[o[j]]}

\* Python's s[b:].
SliceFrom(s, b) ==
    LET lo == IF b < 0 THEN Max(Len(s) + b, 0) ELSE Min(b, Len(s))
    IN  SubSeq(s, lo + 1, Len(s))

TopIndicesNotReversed(order, top_k) == SliceFrom(order, 0 - top_k)

\* np.argsort(probs)[-top_k:][::-1]
TopIndices(order, top_k) == Reverse(SliceFrom(order, 0 - top_k))

RECURSIVE TagsInclusive(_, _)
TagsInclusive(probs, top_indices) ==
    IF top_indices = <<>> THEN <<>>
    ELSE LET i == top_indices[1]
             rest == TagsInclusive(probs, Tail(top_indices))
         IN  IF probs[i] >= TagFloor
             THEN <<[label |-> Labels[i], confidence |-> probs[i], index |-> i]>> \o rest
             ELSE rest

\* The list comprehension building tags; index is the label's place in labels.
RECURSIVE Tags(_, _)
Tags(probs, top_indices) ==
    IF top_indices = <<>> THEN <<>>
    ELSE LET i == top_indices[1]
             rest == Tags(probs, Tail(top_indices))
         IN  IF probs[i] > TagFloor
             THEN <<[label |-> Labels[i], confidence |-> probs[i], index |-> i]>> \o rest
             ELSE rest

----
\* The request handlers on the event loop.

NoLocals ==
    [audio_len |-> 0, window_ms |-> 0, top_k |-> 0, start |-> 0,
     calls |-> 0, classified |-> 0, failures |-> 0, detected |-> <<>>]

NoResp == [status |-> "none", code |-> "", kind |-> "", events |-> <<>>, tags |-> <<>>]

\* The response lockn_exception_handler builds from a LockNHTTPException.
ErrorResp(kind, code) ==
    [status |-> "error", code |-> code, kind |-> kind, events |-> <<>>, tags |-> <<>>]

AwaitPointsWithInference == {"read", "inferring"}

\* Where a handler is suspended on an await: "content = await file.read()" is
\* the only one; model.inference(...) is an ordinary blocking call.
AwaitPoints == {"read"}

\* The event loop runs r: it is the running coroutine, or the loop is idle and r
\* is a new request or one suspended on an await.
CanRun(r) ==
    \/ current = r
    \/ current = 0 /\ (pc[r] = "idle" \/ pc[r] \in AwaitPoints)

\* The running coroutine after r's step to newpc: the loop is free again when r
\* suspends or its handler has returned.
Sched(r, newpc) == IF newpc \in AwaitPoints \cup {"done"} THEN 0 ELSE r

ExceptClauseWrapsAll(exc) ==
    ErrorResp(exc.kind, "LISTEN_CLASSIFICATION_FAILED")

\* "except LockNHTTPException: raise / except Exception as e: raise
\* LockNHTTPException(code=LISTEN_CLASSIFICATION_FAILED, ...)".
ExceptClause(exc) ==
    IF exc.lockn THEN ErrorResp(exc.kind, exc.code)
    ELSE ErrorResp(exc.kind, "LISTEN_CLASSIFICATION_FAILED")

\* An exception leaves the try block: the except clause, then on to finally.
RaiseInTry(r, exc) ==
    /\ resp' = [resp EXCEPT ![r] = ExceptClause(exc)]
    /\ pc' = [pc EXCEPT ![r] = "finally"]
    /\ current' = Sched(r, "finally")

\* A request arrives: the filename check, then the temp file is created and the
\* handler awaits the upload's content.
Begin(r) ==
    /\ pc[r] = "idle"
    /\ CanRun(r)
    /\ \E ep \in {"classify", "detect"}, has_filename \in BOOLEAN,
          w \in WindowMsVals, k \in TopKVals :
        /\ ep = "classify" => w = 0
        /\ ep = "detect" => k = 0
        /\ endpoint' = [endpoint EXCEPT ![r] = ep]
        /\ IF ~has_filename
           THEN /\ resp' = [resp EXCEPT ![r] =
                                ErrorResp("InputError", "VALIDATION_MISSING_FIELD")]
                /\ pc' = [pc EXCEPT ![r] = "done"]
                /\ current' = Sched(r, "done")
                /\ UNCHANGED <<tmpfile, loc>>
           ELSE /\ tmpfile' = [tmpfile EXCEPT ![r] = TRUE]
                /\ loc' = [loc EXCEPT ![r] = [NoLocals EXCEPT !.window_ms = w, !.top_k = k]]
                /\ pc' = [pc EXCEPT ![r] = "read"]
                /\ current' = Sched(r, "read")
                /\ UNCHANGED resp
    /\ UNCHANGED <<_model, constructed, dd, tk>>

\* file.read() returns inside the with block: an empty upload raises there, before
\* the try whose finally unlinks the file; otherwise the content is written.
ReadContent(r) ==
    /\ pc[r] = "read"
    /\ CanRun(r)
    /\ \E content_len \in {0, 1} :
        IF content_len = 0
        THEN /\ resp' = [resp EXCEPT ![r] =
                             ErrorResp("InputError", "LISTEN_INVALID_AUDIO_FORMAT")]
             /\ pc' = [pc EXCEPT ![r] = "done"]
             /\ loc' = [loc EXCEPT ![r] = NoLocals]
             /\ current' = Sched(r, "done")
        ELSE /\ pc' = [pc EXCEPT ![r] = "load"]
             /\ current' = Sched(r, "load")
             /\ UNCHANGED <<resp, loc>>
    /\ UNCHANGED <<_model, constructed, endpoint, tmpfile, dd, tk>>

\* librosa.load: the decoder rejects the bytes, or gives len(audio) samples.
LoadAudio(r) ==
    /\ pc[r] = "load"
    /\ CanRun(r)
    /\ \/ /\ RaiseInTry(r, [lockn |-> TRUE, kind |-> "DecodeError",
                            code |-> "LISTEN_INVALID_AUDIO_FORMAT"])
          /\ UNCHANGED loc
       \/ \E n \in ClipLens :
            /\ loc' = [loc EXCEPT ![r].audio_len = n]
            /\ pc' = [pc EXCEPT ![r] = "get_model"]
            /\ current' = Sched(r, "get_model")
            /\ UNCHANGED resp
    /\ UNCHANGED <<_model, constructed, endpoint, tmpfile, dd, tk>>

\* get_model(): the instance is built on first use; a failed load leaves _model
\* None and raises LISTEN_MODEL_NOT_LOADED.
get_model(r) ==
    /\ pc[r] = "get_model"
    /\ CanRun(r)
    /\ LET next == IF endpoint[r] = "classify" THEN "infer" ELSE "loop"
       IN  IF _model = "None"
           THEN \/ /\ _model' = "AudioTagging"
                   /\ constructed' = constructed + 1
                   /\ pc' = [pc EXCEPT ![r] = next]
                   /\ current' = Sched(r, next)
                   /\ UNCHANGED resp
                \/ /\ RaiseInTry(r, [lockn |-> TRUE, kind |-> "ModelUnavailable",
                                     code |-> "LISTEN_MODEL_NOT_LOADED"])
                   /\ UNCHANGED <<_model, constructed>>
           ELSE /\ pc' = [pc EXCEPT ![r] = next]
                /\ current' = Sched(r, next)
                /\ UNCHANGED <<_model, constructed, resp>>
    /\ UNCHANGED <<endpoint, tmpfile, loc, dd, tk>>

\* classify_audio enters model.inference(audio[None, :]).
ClassifyInferBegin(r) ==
    /\ pc[r] = "infer"
    /\ CanRun(r)
    /\ loc' = [loc EXCEPT ![r].calls = @ + 1]
    /\ pc' = [pc EXCEPT ![r] = "inferring"]
    /\ current' = Sched(r, "inferring")
    /\ UNCHANGED <<_model, constructed, endpoint, tmpfile, resp, dd, tk>>

\* The inference returns or raises; on return the tags are selected.
ClassifyInferEnd(r) ==
    /\ pc[r] = "inferring"
    /\ endpoint[r] = "classify"
    /\ CanRun(r)
    /\ \/ /\ RaiseInTry(r, [lockn |-> FALSE, kind |-> "InferenceError", code |-> ""])
          /\ loc' = [loc EXCEPT ![r].failures = @ + 1]
       \/ \E probs \in ProbVecs : \E order \in ArgSorts(probs) :
            /\ resp' = [resp EXCEPT ![r] =
                            [NoResp EXCEPT !.status = "ok",
                                !.tags = Tags(probs, TopIndices(order, loc[r].top_k))]]
            /\ loc' = [loc EXCEPT ![r].classified = @ + 1]
            /\ pc' = [pc EXCEPT ![r] = "finally"]
            /\ current' = Sched(r, "finally")
    /\ UNCHANGED <<_model, constructed, endpoint, tmpfile, dd, tk>>

\* The head of "for start in range(0, len(audio) - window_samples, hop_samples)":
\* range() raises ValueError on a step of 0; while it has a start the window's
\* inference is entered; when it is exhausted the events are deduplicated and
\* returned.
DetectLoop(r) ==
    /\ pc[r] = "loop"
    /\ CanRun(r)
    /\ LET W == window_samples(loc[r].window_ms)
           H == hop_samples(loc[r].window_ms)
       IN  IF H = 0
           THEN /\ RaiseInTry(r, [lockn |-> FALSE, kind |-> "ValueError", code |-> ""])
                /\ UNCHANGED loc
           ELSE IF RangeHas(loc[r].start, loc[r].audio_len - W, H)
           THEN /\ loc' = [loc EXCEPT ![r].calls = @ + 1]
                /\ pc' = [pc EXCEPT ![r] = "inferring"]
                /\ current' = Sched(r, "inferring")
                /\ UNCHANGED resp
           ELSE /\ resp' = [resp EXCEPT ![r] =
                                [NoResp EXCEPT !.status = "ok",
                                    !.events = Dedup(loc[r].detected, loc[r].window_ms)]]
                /\ pc' = [pc EXCEPT ![r] = "finally"]
                /\ current' = Sched(r, "finally")
                /\ UNCHANGED loc
    /\ UNCHANGED <<_model, constructed, endpoint, tmpfile, dd, tk>>

DetectInferFailedSkip(r) ==
    /\ loc' = [loc EXCEPT ![r].failures = @ + 1,
                          ![r].start = @ + hop_samples(loc[r].window_ms)]
    /\ pc' = [pc EXCEPT ![r] = "loop"]
    /\ current' = Sched(r, "loop")
    /\ UNCHANGED resp

\* model.inference raises inside the window loop: nothing in the loop catches
\* it, so it leaves the loop for the except clause.
DetectInferFailed(r) ==
    /\ RaiseInTry(r, [lockn |-> FALSE, kind |-> "InferenceError", code |-> ""])
    /\ loc' = [loc EXCEPT ![r].failures = @ + 1]

\* A window's inference returns or raises; on return its candidates are appended
\* and the loop goes on to the next start.
DetectInferEnd(r) ==
    /\ pc[r] = "inferring"
    /\ endpoint[r] = "detect"
    /\ CanRun(r)
    /\ \/ DetectInferFailed(r)
       \/ \E probs \in ProbVecs :
            /\ loc' = [loc EXCEPT
                          ![r].detected =
                              @ \o Candidates(probs, timestamp_ms(loc[r].start), 1),
                          ![r].start = @ + hop_samples(loc[r].window_ms),
                          ![r].classified = @ + 1]
            /\ pc' = [pc EXCEPT ![r] = "loop"]
            /\ current' = Sched(r, "loop")
            /\ UNCHANGED resp
    /\ UNCHANGED <<_model, constructed, endpoint, tmpfile, dd, tk>>

\* "finally: if os.path.exists(tmp_path): os.unlink(tmp_path)", and the handler
\* is left: its locals are gone and the response is sent.
Finally(r) ==
    /\ pc[r] = "finally"
    /\ CanRun(r)
    /\ tmpfile' = [tmpfile EXCEPT ![r] = FALSE]
    /\ loc' = [loc EXCEPT ![r] = NoLocals]
    /\ pc' = [pc EXCEPT ![r] = "done"]
    /\ current' = Sched(r, "done")
    /\ UNCHANGED <<_model, constructed, endpoint, resp, dd, tk>>

NoDedup == [window_ms |-> 0, xs |-> <<>>, deduped |-> <<>>]

NoTopK == [pc |-> "off", probs |-> <<>>, top_k |-> 0, tags |-> <<>>]

InitMain ==
    /\ _model = "None"
    /\ constructed = 0
    /\ current = 0
    /\ pc = [r \in Reqs |-> "idle"]
    /\ endpoint = [r \in Reqs |-> "none"]
    /\ tmpfile = [r \in Reqs |-> FALSE]
    /\ loc = [r \in Reqs |-> NoLocals]
    /\ resp = [r \in Reqs |-> NoResp]

Init ==
    /\ InitMain
    /\ dd = NoDedup
    /\ tk = NoTopK

Next ==
    \E r \in Reqs :
        \/ Begin(r)
        \/ ReadContent(r)
        \/ LoadAudio(r)
        \/ get_model(r)
        \/ ClassifyInferBegin(r)
        \/ ClassifyInferEnd(r)
        \/ DetectLoop(r)
        \/ DetectInferEnd(r)
        \/ Finally(r)

Spec == Init /\ [][Next]_vars

----
\* SpecDedup: the dedup loop of detect_events on a stream of candidates in
\* timestamp order.

InitDedup ==
    /\ InitMain
    /\ tk = NoTopK
    /\ \E w \in DedupWindowMsVals : dd = [NoDedup EXCEPT !.window_ms = w]

\* The loop takes the next event of detected_events.
DedupFeed ==
    /\ Len(dd.xs) < MaxCands
    /\ \E ts \in TsVals, conf \in ConfLevels, ev \in EventNames :
        /\ dd.xs # <<>> => ts >= Last(dd.xs).timestamp_ms
        /\ LET event == [event |-> ev, timestamp_ms |-> ts, confidence |-> conf]
           IN  dd' = [dd EXCEPT !.xs = Append(@, event),
                                !.deduped = DedupStep(@, event, dd.window_ms)]
    /\ UNCHANGED <<mainVars, tk>>

NextDedup == DedupFeed

SpecDedup == InitDedup /\ [][NextDedup]_vars

----
\* SpecTopK: the tag selection of classify_audio on one probability vector.

InitTopK ==
    /\ InitMain
    /\ dd = NoDedup
    /\ \E probs \in [1 .. Len(Labels) -> TopKLevels], k \in TopKVals :
        tk = [NoTopK EXCEPT !.pc = "input", !.probs = probs, !.top_k = k]

\* "top_indices = np.argsort(probs)[-top_k:][::-1]" and the tags built from it.
TopKSelect ==
    /\ tk.pc = "input"
    /\ \E order \in ArgSorts(tk.probs) :
        tk' = [tk EXCEPT !.pc = "done",
                         !.tags = Tags(tk.probs, TopIndices(order, tk.top_k))]
    /\ UNCHANGED <<mainVars, dd>>

NextTopK == TopKSelect

SpecTopK == InitTopK /\ [][NextTopK]_vars

----
\* The claims.

\* len(audio), window_samples and hop_samples of request r.
WindowCountClaimed(r) ==
    LET N == loc[r].audio_len
        W == window_samples(loc[r].window_ms)
        H == hop_samples(loc[r].window_ms)
    IN  IF N >= W THEN ((N - W) \div H) + 1 ELSE 0

\* C1: when detect_events has run its window loop to the end with a positive
\* hop, the number of windows it classified is floor((N - W) / H) + 1 when
\* N >= W and 0 when N < W (so a clip of exactly W samples gives 1 window).
C1_WindowCount ==
    \A r \in Reqs :
        (/\ endpoint[r] = "detect"
         /\ pc[r] = "finally"
         /\ resp[r].status = "ok"
         /\ hop_samples(loc[r].window_ms) > 0)
        => loc[r].classified = WindowCountClaimed(r)

NonOverlapping(events, window_ms) ==
    \A i \in 1 .. Len(events) - 1 :
        events[i + 1].timestamp_ms - events[i].timestamp_ms > 2 * window_ms

\* C2: after every step of the dedup loop, any two consecutive events of the
\* timeline are more than window_ms apart.
C2_NonOverlapping == NonOverlapping(dd.deduped, dd.window_ms)

\* The loop has just replaced the last of two kept events by a stronger
\* candidate within window_ms of it.
C2_Witness ==
    /\ Len(dd.xs) = 3
    /\ Len(dd.deduped) = 2
    /\ dd.deduped[1] = dd.xs[1]
    /\ dd.deduped[2] = dd.xs[3]
    /\ dd.xs[3].confidence > dd.xs[2].confidence
    /\ dd.xs[3].timestamp_ms > dd.xs[2].timestamp_ms
    /\ dd.xs[3].timestamp_ms - dd.xs[2].timestamp_ms <= 2 * dd.window_ms

\* C3: the dedup loop run on its own output gives that output back:
\* dedup(dedup(xs)) = dedup(xs), where dedup(xs) is what the loop built from xs.
C3_Idempotent ==
    LET once == Dedup(dd.xs, dd.window_ms)
    IN  /\ dd.deduped = once
        /\ Dedup(once, dd.window_ms) = once

\* The loop merged candidates and kept more than one event.
C3_Witness ==
    /\ Len(dd.xs) = 3
    /\ Len(dd.deduped) = 2
    /\ dd.window_ms > 0
    /\ dd.deduped[2] # dd.xs[2]

\* C4: a request that has finished, on any exit path, has left no temporary
\* file behind.
C4_TempFileDeleted ==
    \A r \in Reqs : pc[r] = "done" => ~tmpfile[r]

\* C5: a detect request whose inference failed on a window ends in an error
\* with no events, classifies no later window and does not retry; events are
\* returned only when every inference call succeeded.
C5_AllOrNothing ==
    \A r \in Reqs :
        /\ (endpoint[r] = "detect" /\ loc[r].failures > 0)
            => /\ loc[r].failures = 1
               /\ pc[r] = "finally"
               /\ resp[r].status = "error"
               /\ resp[r].events = <<>>
        /\ (endpoint[r] = "detect" /\ resp[r].status = "ok" /\ pc[r] = "finally")
            => /\ loc[r].failures = 0
               /\ loc[r].classified = loc[r].calls
        /\ resp[r].status = "error" => resp[r].events = <<>>

\* A detect request failed on a window after an earlier window had given
\* candidates.
C5_Witness ==
    \E r \in Reqs :
        /\ endpoint[r] = "detect"
        /\ pc[r] = "finally"
        /\ loc[r].failures = 1
        /\ loc[r].classified >= 1
        /\ loc[r].detected # <<>>
        /\ resp[r].status = "error"

\* C6: at most one inference call is in progress at any time, each request has
\* at most one call open and opens the next only when the last has ended, and
\* the model instance is constructed at most once.
C6_InferenceSerialized ==
    /\ Cardinality({r \in Reqs : pc[r] = "inferring"}) <= 1
    /\ \A r \in Reqs :
        pc[r] # "done" =>
            loc[r].calls - (loc[r].classified + loc[r].failures)
                = IF pc[r] = "inferring" THEN 1 ELSE 0
    /\ constructed <= 1
    /\ (constructed = 1) = (_model = "AudioTagging")

\* One request is inside its second inference call on the model while another
\* request is in flight, suspended on its read.
C6_Witness ==
    \E r1, r2 \in Reqs :
        /\ r1 # r2
        /\ pc[r1] = "inferring"
        /\ loc[r1].calls = 2
        /\ pc[r2] = "read"
        /\ constructed = 1

CountAbove(probs, floor) == Cardinality({i \in DOMAIN probs : probs[i] > floor})

\* C7: for top_k >= 1 the number of tags is min(top_k, number of entries with
\* probability > 0.05), and no tag has probability exactly 0.05.
C7_TagCount ==
    (tk.pc = "done" /\ tk.top_k >= 1)
    => /\ Len(tk.tags) = Min(tk.top_k, CountAbove(tk.probs, TagFloor))
       /\ \A i \in 1 .. Len(tk.tags) : tk.tags[i].confidence # TagFloor

\* The truncation to top_k cut entries above the floor, with an entry exactly
\* at the floor in the vector.
C7_Witness ==
    /\ tk.pc = "done"
    /\ tk.top_k >= 1
    /\ tk.top_k < CountAbove(tk.probs, TagFloor)
    /\ \E i \in DOMAIN tk.probs : tk.probs[i] = TagFloor
    /\ Len(tk.tags) = tk.top_k

\* C8: with top_k <= 0 the tag list is empty.
C8_NonPositiveTopKEmpty ==
    (tk.pc = "done" /\ tk.top_k <= 0) => tk.tags = <<>>

\* C9: the tags are in descending order of probability, and of two tags with
\* equal probability the one with the lower vocabulary index comes first.
C9_TiesAscendingIndex ==
    tk.pc = "done" =>
        \A i, j \in 1 .. Len(tk.tags) :
            i < j =>
                /\ tk.tags[i].confidence >= tk.tags[j].confidence
                /\ tk.tags[i].confidence = tk.tags[j].confidence
                    => tk.tags[i].index < tk.tags[j].index

\* C9 as amended: the tags are in descending (non-increasing) order of
\* probability; nothing is said of the order of tags with equal probability.
C9_Descending ==
    tk.pc = "done" =>
        \A i, j \in 1 .. Len(tk.tags) :
            i < j => tk.tags[i].confidence >= tk.tags[j].confidence

\* Tags of different and of equal probability were returned, the equal ones
\* with the higher vocabulary index first.
C9_Witness ==
    /\ tk.pc = "done"
    /\ Len(tk.tags) = 3
    /\ tk.tags[1].confidence > tk.tags[2].confidence
    /\ tk.tags[2].confidence = tk.tags[3].confidence
    /\ tk.tags[2].index > tk.tags[3].index

FourKinds == {"InputError", "DecodeError", "ModelUnavailable", "InferenceError"}

Failed(r) == resp[r].status = "error" /\ resp[r].kind \in FourKinds

\* C10: two failures of different kinds among InputError, DecodeError,
\* ModelUnavailable and InferenceError never carry the same error code.
C10_DistinctCodes ==
    \A r1, r2 \in Reqs :
        (Failed(r1) /\ Failed(r2) /\ resp[r1].kind # resp[r2].kind)
        => resp[r1].code # resp[r2].code

\* C10 as amended: two failures of different kinds carry the same code only when
\* one is an InputError and the other a DecodeError, both reporting
\* LISTEN_INVALID_AUDIO_FORMAT (the InputError of an empty payload); DecodeError,
\* ModelUnavailable and InferenceError each report one code, and an InputError
\* reports VALIDATION_MISSING_FIELD or LISTEN_INVALID_AUDIO_FORMAT.
C10_DistinctCodesButEmptyPayload ==
    /\ \A r1, r2 \in Reqs :
        (Failed(r1) /\ Failed(r2) /\ resp[r1].kind # resp[r2].kind
            /\ resp[r1].code = resp[r2].code)
        => /\ {resp[r1].kind, resp[r2].kind} = {"InputError", "DecodeError"}
           /\ resp[r1].code = "LISTEN_INVALID_AUDIO_FORMAT"
    /\ \A r \in Reqs :
        Failed(r) =>
            CASE resp[r].kind = "DecodeError" ->
                    resp[r].code = "LISTEN_INVALID_AUDIO_FORMAT"
              [] resp[r].kind = "ModelUnavailable" ->
                    resp[r].code = "LISTEN_MODEL_NOT_LOADED"
              [] resp[r].kind = "InferenceError" ->
                    resp[r].code = "LISTEN_CLASSIFICATION_FAILED"
              [] OTHER ->
                    resp[r].code \in {"VALIDATION_MISSING_FIELD",
                                      "LISTEN_INVALID_AUDIO_FORMAT"}

\* One request failed because the model could not be loaded and another because
\* its inference failed.
C10_Witness ==
    \E r1, r2 \in Reqs :
        /\ pc[r1] = "done" /\ pc[r2] = "done"
        /\ resp[r1].status = "error" /\ resp[r1].kind = "ModelUnavailable"
        /\ resp[r2].status = "error" /\ resp[r2].kind = "InferenceError"

\* What the claim says one step of the dedup loop does to the timeline old on
\* the candidate c.
StepAsClaimed(old, c, new, window_ms) ==
    IF old = <<>> \/ c.timestamp_ms - Last(old).timestamp_ms > 2 * window_ms
    THEN /\ Len(new) = Len(old) + 1
         /\ new[Len(new)] = c
         /\ \A i \in 1 .. Len(old) : new[i] = old[i]
    ELSE /\ Len(new) = Len(old)
         /\ \A i \in 1 .. Len(old) - 1 : new[i] = old[i]
         /\ c.confidence > Last(old).confidence => Last(new) = c
         /\ c.confidence <= Last(old).confidence => Last(new) = Last(old)

\* C11: each step of the dedup loop appends the candidate c, leaving the earlier
\* events unchanged, when the timeline is empty or c is more than window_ms after
\* the last event; otherwise the length is unchanged and only the last event may
\* change, to c exactly when c.confidence > last.confidence. So with window_ms
\* 500, candidates at 0 and 300 ms with confidences 0.4 and 0.6 give the one event
\* at 300 ms with confidence 0.6, and candidates at 0 and 600 ms are both kept.
C11_DedupStep ==
    [][dd'.xs # dd.xs =>
        /\ StepAsClaimed(dd.deduped, Last(dd'.xs), dd'.deduped, dd.window_ms)
        /\ (/\ dd.window_ms = DefaultWindowMs
            /\ Len(dd'.xs) = 2
            /\ dd'.xs[1].timestamp_ms = 0 /\ dd'.xs[1].confidence = 40
            /\ dd'.xs[2].timestamp_ms = 600 /\ dd'.xs[2].confidence = 60)
           => dd'.deduped = <<dd'.xs[2]>>
        /\ (/\ dd.window_ms = DefaultWindowMs
            /\ Len(dd'.xs) = 2
            /\ dd'.xs[1].timestamp_ms = 0
            /\ dd'.xs[2].timestamp_ms = 1200)
           => dd'.deduped = dd'.xs]_vars

\* With window_ms 500 the loop has taken candidates at 0 ms (0.4) and 300 ms
\* (0.6) and holds the one event at 300 ms with confidence 0.6.
C11_Witness ==
    /\ dd.window_ms = DefaultWindowMs
    /\ Len(dd.xs) = 2
    /\ dd.xs[1].timestamp_ms = 0 /\ dd.xs[1].confidence = 40
    /\ dd.xs[2].timestamp_ms = 600 /\ dd.xs[2].confidence = 60
    /\ Len(dd.deduped) = 1
    /\ dd.deduped[1].timestamp_ms = 600
    /\ dd.deduped[1].confidence = 60

====
